---- MODULE Spec2Model ----
(***************************************************************************)
(* Model of the piwigo upload pipeline of DirectoriesToAlbums:             *)
(*   internal/pkg/piwigo/picture.go                                        *)
(*     ImageUploadRequired, UploadImage, uploadImageChunks,                *)
(*     uploadImageChunk, uploadImageFinal                                  *)
(* and of the image synchronisation driver that calls them.                *)
(*                                                                         *)
(* Every PostForm is a blocking call: the model splits a function at each  *)
(* PostForm into the step that sends the request and the step that takes   *)
(* the server's answer (any answer the server or the transport can give).  *)
(***************************************************************************)
EXTENDS Integers, Sequences, FiniteSets, TLC

\* ---------------------------------------------------------------- bounds
NumHashes == 2          \* content hashes known to a run
MaxFileKB == 6          \* largest file is MaxFileKB*KB + MaxExtraBytes bytes
MaxExtraBytes == 1      \* bytes beyond a whole number of KB
MaxChunkKB == 5         \* largest configured ChunkSizeInKB (smallest is -1)
MaxImageId == 2         \* largest image_id the server reports
MaxRuns == 2            \* sync runs (a re-run follows a finished run)

\* ------------------------------------------------------ program constants
KB == 1024              \* picture.go:81, picture.go:105
defaultBufSize == 4096  \* bufio.NewReader(file), picture.go:104

HashNames == <<"a1b2", "c3d4", "e5f6", "0789">>
Hashes == {HashNames[i] : i \in 1..NumHashes}
HashIndex(h) == CHOOSE i \in 1..NumHashes : HashNames[i] = h

FileSizes == {k * KB + e : k \in 0..MaxFileKB, e \in 0..MaxExtraBytes}
ChunkSizes == (0 - 1)..MaxChunkKB
ImageIds == (0 - 1)..MaxImageId
Markers == {"", "found"}           \* values of imageExistResponse.Result
Stats == {"ok", "fail", "error"}   \* values of the stat field

\* no file of FileSizes needs as many chunks as this (cap of the position counter)
MaxPosition == 2 * MaxFileKB + 4

Min(a, b) == IF a < b THEN a ELSE b
CeilDiv(a, b) == (a + b - 1) \div b

\* ------------------------------------------------------------------ errors
\* A Go error value.  kind "nil" is the nil error.
Err(kind, state, position, sum, name) ==
  [kind |-> kind, state |-> state, position |-> position, sum |-> sum, name |-> name]
NoError == Err("nil", "", 0 - 1, "", "")
TransportError == Err("transport", "", 0 - 1, "", "")
DecodeError == Err("decode", "", 0 - 1, "", "")
StatError == Err("stat", "", 0 - 1, "", "")
OpenError == Err("open", "", 0 - 1, "", "")
ReadError == Err("read", "", 0 - 1, "", "")
\* errors.New("Uploadchunk size is less or equal to zero. ...")
ConfigError == Err("config", "", 0 - 1, "", "")
\* "Got state %s while uploading chunk %d of %s"
ChunkStateError(status, position, md5) == Err("chunkState", status, position, md5, "")
\* "Got state %s while adding image %s"
FinalStateError(status, originalFilename) == Err("finalState", status, 0 - 1, "", originalFilename)

\* fileInfo.Name() of the file whose content hash is h
FileName(h) == h \o ".jpg"

VARIABLES
  ChunkSizeInKB,   \* context.ChunkSizeInKB
  runs,            \* number of sync runs started
  pc,              \* position of the (single) thread of control
  md5sums,         \* argument of ImageUploadRequired: the hashes of the run
  existLog,        \* existence queries sent in this run, with their answers
  missingFiles,    \* result slice of ImageUploadRequired
  existErr,        \* error result of ImageUploadRequired
  todo,            \* files of the run not yet handled by the driver
  skipped,         \* files the driver skipped as present
  md5sum,          \* UploadImage: md5sum argument
  fileSize,        \* UploadImage: fileInfo.Size()
  readPos,         \* bytes handed out by reader.Read so far
  buffered,        \* bytes held in the bufio.Reader's buffer
  currentChunk,    \* uploadImageChunks: currentChunk
  netlog,          \* requests of the current UploadImage invocation, in order
  sentFor,         \* hashes a chunk or finalize request was sent for in this run
  imageId,         \* UploadImage: returned image id
  uploadErr,       \* UploadImage: returned error
  finalized,       \* server: images created per content hash, over all runs
  attempts,        \* UploadImage invocations per content hash, over all runs
  payload,         \* buffer[:readBytes]: the bytes of one chunk
  encodedChunk,    \* encodedChunk: the text sent in the data field
  decodedChunk     \* what the receiver decodes from the data field

vars == <<ChunkSizeInKB, runs, pc, md5sums, existLog, missingFiles, existErr,
          todo, skipped, md5sum, fileSize, readPos, buffered, currentChunk,
          netlog, sentFor, imageId, uploadErr, finalized, attempts,
          payload, encodedChunk, decodedChunk>>

histVars == <<finalized, attempts>>
codecVars == <<payload, encodedChunk, decodedChunk>>
oracleVars == <<md5sums, existLog, missingFiles, existErr>>
uploadVars == <<md5sum, fileSize, readPos, buffered, currentChunk, netlog, sentFor,
                imageId, uploadErr>>

\* ------------------------------------------------------------ requests
ChunkRequest(sum, position, off, len) ==
  [method |-> "pwg.images.addChunk", original_sum |-> sum, position |-> position,
   off |-> off, len |-> len, answer |-> "pending"]
\* mutant: the finalize request is tagged with the file's name
FinalRequestTaggedWithName(sum, originalFilename) ==
  [method |-> "pwg.images.add", original_sum |-> originalFilename, position |-> 0 - 1,
   off |-> 0, len |-> 0, answer |-> "pending"]
FinalRequest(sum, originalFilename) ==
  [method |-> "pwg.images.add", original_sum |-> sum, position |-> 0 - 1,
   off |-> 0, len |-> 0, answer |-> "pending"]
Answered(log, a) == [log EXCEPT ![Len(log)].answer = a]

\* ------------------------------------------------------- server answers
\* What a PostForm followed by json Decode can yield: a transport error, a
\* body that does not decode, or a decoded body.
Resp(kind, stat, image_id) == [kind |-> kind, stat |-> stat, image_id |-> image_id]
ChunkResponses ==
  {Resp("transport", "", 0), Resp("decode", "", 0)} \cup {Resp("json", s, 0) : s \in Stats}
FinalResponses ==
  {Resp("transport", "", 0), Resp("decode", "", 0)}
    \cup {Resp("json", s, i) : s \in Stats, i \in ImageIds}
\* imageExistResponse.Result: any mapping from some hashes to markers
ExistResults == UNION {[K -> Markers] : K \in SUBSET Hashes}
EmptyResult == [k \in {} |-> ""]
ExistResponses ==
  {[kind |-> "transport", result |-> EmptyResult], [kind |-> "decode", result |-> EmptyResult]}
    \cup {[kind |-> "json", result |-> R] : R \in ExistResults}
AnswerOf(resp) == IF resp.kind = "json" THEN resp.stat ELSE resp.kind

\* ------------------------------------------------------ ImageUploadRequired
\* mutant: every key of the response is returned, whatever its value
ImageUploadRequiredResultAllKeys(Result) == DOMAIN Result
\* picture.go:59-68: the keys of the response whose value is "".
ImageUploadRequiredResult(Result) == {key \in DOMAIN Result : Result[key] = ""}

\* picture.go:47-57: the error ImageUploadRequired returns for an answer
ImageUploadRequiredError(resp) ==
  CASE resp.kind = "transport" -> TransportError
    [] resp.kind = "decode" -> DecodeError
    [] OTHER -> NoError

\* picture.go:35-47: join the sums, build the form and post it
ImageUploadRequiredSend ==
  /\ pc = "start"
  /\ \E H \in SUBSET Hashes :
       /\ md5sums' = H
       /\ todo' = H
       /\ existLog' = Append(existLog, [md5sum_list |-> H, answer |-> "pending",
                                       result |-> EmptyResult])
  /\ pc' = "existWait"
  /\ UNCHANGED <<ChunkSizeInKB, runs, missingFiles, existErr, skipped>>
  /\ UNCHANGED uploadVars
  /\ UNCHANGED histVars
  /\ UNCHANGED codecVars

\* picture.go:47-68: take the answer, decode it, collect the missing sums
ImageUploadRequiredReturn ==
  /\ pc = "existWait"
  /\ \E resp \in ExistResponses :
       /\ existErr' = ImageUploadRequiredError(resp)
       /\ missingFiles' = IF ImageUploadRequiredError(resp) = NoError
                          THEN ImageUploadRequiredResult(resp.result)
                          ELSE {}
       /\ existLog' = [existLog EXCEPT ![Len(existLog)].answer = resp.kind,
                                    ![Len(existLog)].result = resp.result]
  /\ pc' = "sync"
  /\ UNCHANGED <<ChunkSizeInKB, runs, md5sums, todo, skipped>>
  /\ UNCHANGED uploadVars
  /\ UNCHANGED histVars
  /\ UNCHANGED codecVars

\* ------------------------------------------------------------ the driver
\* synchronizeImages (called at part_000:46): for every local file, skip it
\* when the existence check did not report it missing, else upload it.
NextFile(files) == CHOOSE h \in files : \A g \in files : HashIndex(h) <= HashIndex(g)
\* mutant: the driver uploads every file, whatever the existence check said
UploadNeededAlways(h, missing) == TRUE
UploadNeeded(h, missing) == h \in missing

synchronizeImagesFile ==
  /\ pc = "sync"
  /\ existErr = NoError
  /\ todo # {}
  /\ LET h == NextFile(todo) IN
       /\ todo' = todo \ {h}
       /\ IF UploadNeeded(h, missingFiles)
          THEN /\ pc' = "upload"          \* a new invocation of UploadImage
               /\ md5sum' = h
               /\ netlog' = <<>>
               /\ imageId' = 0
               /\ uploadErr' = NoError
               /\ UNCHANGED skipped
          ELSE /\ pc' = "sync"
               /\ skipped' = skipped \cup {h}
               /\ UNCHANGED <<md5sum, netlog, imageId, uploadErr>>
  /\ UNCHANGED <<ChunkSizeInKB, runs, fileSize, readPos, buffered, currentChunk, sentFor>>
  /\ UNCHANGED oracleVars

synchronizeImagesStep == synchronizeImagesFile /\ UNCHANGED <<histVars, codecVars>>

\* the same step, counting the invocations of UploadImage per content hash
synchronizeImagesStepCounted ==
  /\ synchronizeImagesFile
  /\ attempts' = IF pc' = "upload" THEN [attempts EXCEPT ![md5sum'] = @ + 1] ELSE attempts
  /\ UNCHANGED finalized
  /\ UNCHANGED codecVars

\* the run ends when every file is handled or an error was returned
synchronizeImagesEnd ==
  /\ pc = "sync"
  /\ \/ todo = {}
     \/ existErr # NoError
     \/ uploadErr # NoError
  /\ pc' = "done"
  /\ UNCHANGED <<ChunkSizeInKB, runs, todo, skipped>>
  /\ UNCHANGED oracleVars
  /\ UNCHANGED uploadVars
  /\ UNCHANGED histVars
  /\ UNCHANGED codecVars

\* part_000:20-52: a later run of the program starts from scratch
Run ==
  /\ pc = "done"
  /\ runs < MaxRuns
  /\ runs' = runs + 1
  /\ pc' = "start"
  /\ md5sums' = {}
  /\ existLog' = <<>>
  /\ missingFiles' = {}
  /\ existErr' = NoError
  /\ todo' = {}
  /\ skipped' = {}
  /\ md5sum' = ""
  /\ fileSize' = 0
  /\ readPos' = 0
  /\ buffered' = 0
  /\ currentChunk' = 0
  /\ netlog' = <<>>
  /\ sentFor' = {}
  /\ imageId' = 0
  /\ uploadErr' = NoError
  /\ UNCHANGED ChunkSizeInKB
  /\ UNCHANGED histVars
  /\ UNCHANGED codecVars

\* -------------------------------------------------------------- UploadImage
\* mutant: only a negative chunk size is rejected
ChunkSizeInvalidNegativeOnly(chunkSizeInKB) == chunkSizeInKB < 0
\* picture.go:72
ChunkSizeInvalid(chunkSizeInKB) == chunkSizeInKB <= 0

\* mutant: at the end of the file Read gives (0, nil), never io.EOF
\* bufio.Reader.Read(p) on a regular file (picture.go:104, 112), for
\* len(p) = plen, buf bytes held in the reader's buffer and rest bytes not
\* yet read from the file: at most one Read of the file; a p of at least
\* the buffer's size is filled from the file directly, a smaller p gets what
\* the buffer holds, after one fill of the buffer when it was empty.
\* n is the number of bytes put in p, eof tells whether io.EOF is returned.
bufioReadNoEOF(plen, buf, rest) ==
  IF plen = 0 THEN [n |-> 0, buffered |-> buf, eof |-> FALSE]
  ELSE IF buf > 0 THEN [n |-> Min(plen, buf), buffered |-> buf - Min(plen, buf), eof |-> FALSE]
  ELSE IF rest = 0 THEN [n |-> 0, buffered |-> 0, eof |-> FALSE]
  ELSE IF plen >= defaultBufSize THEN [n |-> Min(plen, rest), buffered |-> 0, eof |-> FALSE]
  ELSE [n |-> Min(plen, Min(defaultBufSize, rest)),
        buffered |-> Min(defaultBufSize, rest) - Min(plen, Min(defaultBufSize, rest)),
        eof |-> FALSE]
bufioRead(plen, buf, rest) ==
  IF plen = 0 THEN [n |-> 0, buffered |-> buf, eof |-> FALSE]
  ELSE IF buf > 0 THEN [n |-> Min(plen, buf), buffered |-> buf - Min(plen, buf), eof |-> FALSE]
  ELSE IF rest = 0 THEN [n |-> 0, buffered |-> 0, eof |-> TRUE]
  ELSE IF plen >= defaultBufSize THEN [n |-> Min(plen, rest), buffered |-> 0, eof |-> FALSE]
  ELSE [n |-> Min(plen, Min(defaultBufSize, rest)),
        buffered |-> Min(defaultBufSize, rest) - Min(plen, Min(defaultBufSize, rest)),
        eof |-> FALSE]

\* picture.go:81: fileSizeInKB := fileInfo.Size() / 1024
fileSizeInKB(size) == size \div KB
\* picture.go:106: numberOfChunks := (fileSizeInKB / int64(context.ChunkSizeInKB)) + 1
numberOfChunks(sizeInKB, chunkSizeInKB) == (sizeInKB \div chunkSizeInKB) + 1

\* mutant: the loop ends only on an end of stream that comes with data
LoopBreaksOnData(readBytes, eof) == eof /\ readBytes # 0
\* picture.go:113: the loop ends on a zero-byte read at end of stream
LoopBreaks(readBytes, eof) == eof /\ readBytes = 0

\* mutant: the stat of a decoded answer is not looked at
uploadImageChunkResultNoStatusCheck(resp, sum, position) ==
  CASE resp.kind = "transport" -> TransportError
    [] resp.kind = "decode" -> DecodeError
    [] OTHER -> NoError
\* picture.go:144-161: the error uploadImageChunk returns for an answer
uploadImageChunkResult(resp, sum, position) ==
  CASE resp.kind = "transport" -> TransportError
    [] resp.kind = "decode" -> DecodeError
    [] resp.kind = "json" /\ resp.stat # "ok" -> ChunkStateError(resp.stat, position, sum)
    [] OTHER -> NoError

\* mutant: the stat of the finalize answer is not looked at
uploadImageFinalResultNoStatusCheck(resp, originalFilename) ==
  CASE resp.kind = "transport" -> [id |-> 0, err |-> TransportError]
    [] resp.kind = "decode" -> [id |-> 0, err |-> DecodeError]
    [] OTHER -> [id |-> resp.image_id, err |-> NoError]
\* picture.go:174-191: what uploadImageFinal returns for an answer
uploadImageFinalResult(resp, originalFilename) ==
  CASE resp.kind = "transport" -> [id |-> 0, err |-> TransportError]
    [] resp.kind = "decode" -> [id |-> 0, err |-> DecodeError]
    [] resp.kind = "json" /\ resp.stat # "ok" ->
         [id |-> 0, err |-> FinalStateError(resp.stat, originalFilename)]
    [] OTHER -> [id |-> resp.image_id, err |-> NoError]

\* mutant: the loop goes on after an upload error
ChunkLoopContinuesAfterError(uploadError) == TRUE
\* picture.go:123-125: an upload error leaves the loop
ChunkLoopContinues(uploadError) == uploadError = NoError

\* mutant: the position is never incremented
NextChunkStuck(chunk) == chunk
\* picture.go:127: currentChunk++
NextChunk(chunk) == chunk + 1

\* UploadImage returns (id, err) to the driver
Return(id, err) ==
  /\ imageId' = id
  /\ uploadErr' = err
  /\ pc' = "sync"

\* picture.go:71-84 and 97-107: the checks before the read loop
UploadImage ==
  /\ pc = "upload"
  /\ readPos' = 0
  /\ buffered' = 0
  /\ currentChunk' = 0
  /\ \/ /\ ChunkSizeInvalid(ChunkSizeInKB)
        /\ Return(0, ConfigError)
        /\ fileSize' = 0
     \/ /\ ~ChunkSizeInvalid(ChunkSizeInKB)
        /\ \/ /\ Return(0, StatError)          \* os.Stat fails
              /\ fileSize' = 0
           \/ \E size \in FileSizes :
                /\ fileSize' = size
                /\ \/ Return(0, OpenError)     \* os.Open fails
                   \/ /\ pc' = "read"
                      /\ imageId' = 0
                      /\ uploadErr' = NoError
  /\ UNCHANGED <<ChunkSizeInKB, runs, todo, skipped, md5sum, netlog, sentFor>>
  /\ UNCHANGED oracleVars
  /\ UNCHANGED histVars
  /\ UNCHANGED codecVars

\* picture.go:109-122 and 133-144 (one Read and the chunk's request), or
\* picture.go:113-114, 130, 84-89 and 164-174 (end of the loop and the
\* finalize request)
uploadImageChunksRead ==
  /\ pc = "read"
  /\ LET r == bufioRead(ChunkSizeInKB * KB, buffered, fileSize - readPos - buffered) IN
       \/ /\ buffered = 0                      \* the file's Read fails
          /\ Return(0, ReadError)
          /\ UNCHANGED <<netlog, sentFor, readPos, buffered>>
       \/ /\ LoopBreaks(r.n, r.eof)
          /\ netlog' = Append(netlog, FinalRequest(md5sum, FileName(md5sum)))
          /\ sentFor' = sentFor \cup {md5sum}
          /\ pc' = "finalWait"
          /\ UNCHANGED <<readPos, buffered, imageId, uploadErr>>
       \/ /\ ~LoopBreaks(r.n, r.eof)
          /\ currentChunk < MaxPosition
          /\ netlog' = Append(netlog, ChunkRequest(md5sum, currentChunk, readPos, r.n))
          /\ sentFor' = sentFor \cup {md5sum}
          /\ readPos' = readPos + r.n
          /\ buffered' = r.buffered
          /\ pc' = "chunkWait"
          /\ UNCHANGED <<imageId, uploadErr>>
  /\ UNCHANGED <<ChunkSizeInKB, runs, todo, skipped, md5sum, fileSize, currentChunk>>
  /\ UNCHANGED oracleVars
  /\ UNCHANGED histVars
  /\ UNCHANGED codecVars

\* picture.go:144-161 and 122-127: the answer to a chunk request
uploadImageChunkReturn ==
  /\ pc = "chunkWait"
  /\ \E resp \in ChunkResponses :
       LET uploadError == uploadImageChunkResult(resp, md5sum, currentChunk) IN
         /\ netlog' = Answered(netlog, AnswerOf(resp))
         /\ IF ChunkLoopContinues(uploadError)
            THEN /\ currentChunk' = NextChunk(currentChunk)
                 /\ pc' = "read"
                 /\ UNCHANGED <<imageId, uploadErr>>
            ELSE /\ Return(0, uploadError)
                 /\ UNCHANGED currentChunk
  /\ UNCHANGED <<ChunkSizeInKB, runs, todo, skipped, md5sum, fileSize, readPos, buffered,
                 sentFor>>
  /\ UNCHANGED oracleVars
  /\ UNCHANGED histVars
  /\ UNCHANGED codecVars

\* The server's side of pwg.images.add: finalization is the commit point.
\* An answer with stat "ok" tells that the image was created, any other stat
\* that it was not; when the answer is lost or unreadable the server may
\* have created the image or not.
ServerCommits(resp) == IF resp.kind = "json" THEN {resp.stat = "ok"} ELSE BOOLEAN

\* picture.go:174-191 and 89-94: the answer to the finalize request
uploadImageFinalAnswer(resp) ==
  /\ pc = "finalWait"
  /\ LET res == uploadImageFinalResult(resp, FileName(md5sum)) IN
       /\ netlog' = Answered(netlog, AnswerOf(resp))
       /\ Return(IF res.err # NoError THEN 0 ELSE res.id, res.err)
  /\ UNCHANGED <<ChunkSizeInKB, runs, todo, skipped, md5sum, fileSize, readPos,
                 buffered, currentChunk, sentFor>>
  /\ UNCHANGED oracleVars

uploadImageFinalReturn ==
  \E resp \in FinalResponses :
    uploadImageFinalAnswer(resp) /\ UNCHANGED <<histVars, codecVars>>

\* the same step, with the server's record of the images it created
uploadImageFinalReturnCommitted ==
  \E resp \in FinalResponses :
    /\ uploadImageFinalAnswer(resp)
    /\ \E committed \in ServerCommits(resp) :
         finalized' = [finalized EXCEPT ![md5sum] = IF committed THEN @ + 1 ELSE @]
    /\ UNCHANGED attempts
    /\ UNCHANGED codecVars

\* ------------------------------------------------------------ specification
Init ==
  /\ ChunkSizeInKB \in ChunkSizes
  /\ runs = 1
  /\ pc = "start"
  /\ md5sums = {}
  /\ existLog = <<>>
  /\ missingFiles = {}
  /\ existErr = NoError
  /\ todo = {}
  /\ skipped = {}
  /\ md5sum = ""
  /\ fileSize = 0
  /\ readPos = 0
  /\ buffered = 0
  /\ currentChunk = 0
  /\ netlog = <<>>
  /\ sentFor = {}
  /\ imageId = 0
  /\ uploadErr = NoError
  /\ finalized = [h \in Hashes |-> 0]
  /\ attempts = [h \in Hashes |-> 0]
  /\ payload = <<>>
  /\ encodedChunk = <<>>
  /\ decodedChunk = [ok |-> TRUE, bytes |-> <<>>]

Next ==
  \/ ImageUploadRequiredSend
  \/ ImageUploadRequiredReturn
  \/ synchronizeImagesStep
  \/ synchronizeImagesEnd
  \/ Run
  \/ UploadImage
  \/ uploadImageChunksRead
  \/ uploadImageChunkReturn
  \/ uploadImageFinalReturn

Spec == Init /\ [][Next]_vars

\* The program against a server with a state.
\* A server that answers the existence check from its own state: every
\* queried hash is in the answer, marked when an image with that content
\* hash exists.
TruthfulAnswer ==
  (existLog # <<>> /\ existLog[Len(existLog)].answer = "json") =>
    existLog[Len(existLog)].result =
      [h \in existLog[Len(existLog)].md5sum_list |-> IF finalized[h] > 0 THEN "found" ELSE ""]

ImageUploadRequiredReturnTruthful == ImageUploadRequiredReturn /\ TruthfulAnswer'

NextServer ==
  \/ ImageUploadRequiredSend
  \/ ImageUploadRequiredReturnTruthful
  \/ synchronizeImagesStepCounted
  \/ synchronizeImagesEnd
  \/ Run
  \/ UploadImage
  \/ uploadImageChunksRead
  \/ uploadImageChunkReturn
  \/ uploadImageFinalReturnCommitted

SpecServer == Init /\ [][NextServer]_vars

\* ------------------------------------------------- the transport encoding
MaxPayloadLen == 4      \* longest chunk payload of the encoding's specification
\* byte values around every boundary of the 6-bit groups
Bytes == {0, 1, 63, 64, 127, 128, 255}

\* the alphabet of base64.StdEncoding, and its padding character
Alphabet ==
  <<"A", "B", "C", "D", "E", "F", "G", "H", "I", "J", "K", "L", "M", "N", "O", "P",
    "Q", "R", "S", "T", "U", "V", "W", "X", "Y", "Z", "a", "b", "c", "d", "e", "f",
    "g", "h", "i", "j", "k", "l", "m", "n", "o", "p", "q", "r", "s", "t", "u", "v",
    "w", "x", "y", "z", "0", "1", "2", "3", "4", "5", "6", "7", "8", "9", "+", "/">>
Pad == "="
Char(sextet) == Alphabet[sextet + 1]
IsAlphabetChar(c) == \E i \in DOMAIN Alphabet : Alphabet[i] = c
Sextet(c) == (CHOOSE i \in DOMAIN Alphabet : Alphabet[i] = c) - 1

\* mutant: the incomplete group is not padded (base64.RawStdEncoding)
EncodeTailUnpadded(b) ==
  IF Len(b) = 1
  THEN <<Char(b[1] \div 4), Char((b[1] % 4) * 16)>>
  ELSE <<Char(b[1] \div 4), Char((b[1] % 4) * 16 + b[2] \div 16), Char((b[2] % 16) * 4)>>
\* the last, incomplete group of base64.StdEncoding: padded to four characters
EncodeTail(b) ==
  IF Len(b) = 1
  THEN <<Char(b[1] \div 4), Char((b[1] % 4) * 16), Pad, Pad>>
  ELSE <<Char(b[1] \div 4), Char((b[1] % 4) * 16 + b[2] \div 16), Char((b[2] % 16) * 4), Pad>>

\* base64.StdEncoding.EncodeToString (picture.go:120): three bytes give four
\* characters; the text has no line breaks
RECURSIVE base64Encode(_)
base64Encode(b) ==
  IF Len(b) = 0 THEN <<>>
  ELSE IF Len(b) < 3 THEN EncodeTail(b)
  ELSE <<Char(b[1] \div 4),
         Char((b[1] % 4) * 16 + b[2] \div 16),
         Char((b[2] % 16) * 4 + b[3] \div 64),
         Char(b[3] % 64)>> \o base64Encode(SubSeq(b, 4, Len(b)))

\* the bytes of one group of four characters; <<0 - 1>> for a malformed group
DecodeGroup(g, last) ==
  IF ~(IsAlphabetChar(g[1]) /\ IsAlphabetChar(g[2])) THEN <<0 - 1>>
  ELSE IF g[3] = Pad /\ g[4] = Pad /\ last
    THEN (IF Sextet(g[2]) % 16 = 0 THEN <<Sextet(g[1]) * 4 + Sextet(g[2]) \div 16>>
          ELSE <<0 - 1>>)
  ELSE IF ~IsAlphabetChar(g[3]) THEN <<0 - 1>>
  ELSE IF g[4] = Pad /\ last
    THEN (IF Sextet(g[3]) % 4 = 0
          THEN <<Sextet(g[1]) * 4 + Sextet(g[2]) \div 16,
                 (Sextet(g[2]) % 16) * 16 + Sextet(g[3]) \div 4>>
          ELSE <<0 - 1>>)
  ELSE IF ~IsAlphabetChar(g[4]) THEN <<0 - 1>>
  ELSE <<Sextet(g[1]) * 4 + Sextet(g[2]) \div 16,
         (Sextet(g[2]) % 16) * 16 + Sextet(g[3]) \div 4,
         (Sextet(g[3]) % 4) * 64 + Sextet(g[4])>>

RECURSIVE DecodeGroups(_)
DecodeGroups(t) ==
  IF Len(t) = 0 THEN <<>>
  ELSE DecodeGroup(SubSeq(t, 1, 4), Len(t) = 4) \o DecodeGroups(SubSeq(t, 5, Len(t)))

\* standard base64 decoding of the data field, as the receiver of
\* pwg.images.addChunk does it: the text must be whole groups of four
base64Decode(t) ==
  IF Len(t) % 4 # 0 THEN [ok |-> FALSE, bytes |-> <<>>]
  ELSE LET bytes == DecodeGroups(t) IN
         IF \E i \in DOMAIN bytes : bytes[i] < 0
         THEN [ok |-> FALSE, bytes |-> <<>>]
         ELSE [ok |-> TRUE, bytes |-> bytes]

Payloads == UNION {[1..n -> Bytes] : n \in 0..MaxPayloadLen}

\* picture.go:120: encodedChunk := base64.StdEncoding.EncodeToString(buffer[:readBytes])
EncodeChunk ==
  /\ pc = "encode"
  /\ encodedChunk' = base64Encode(payload)
  /\ pc' = "decode"
  /\ UNCHANGED <<ChunkSizeInKB, runs, todo, skipped, payload, decodedChunk>>
  /\ UNCHANGED <<oracleVars, uploadVars, histVars>>

\* the receiver decodes the data field (picture.go:136)
DecodeChunk ==
  /\ pc = "decode"
  /\ decodedChunk' = base64Decode(encodedChunk)
  /\ pc' = "decoded"
  /\ UNCHANGED <<ChunkSizeInKB, runs, todo, skipped, payload, encodedChunk>>
  /\ UNCHANGED <<oracleVars, uploadVars, histVars>>

CodecInit ==
  /\ ChunkSizeInKB = 1
  /\ runs = 1
  /\ pc = "encode"
  /\ md5sums = {}
  /\ existLog = <<>>
  /\ missingFiles = {}
  /\ existErr = NoError
  /\ todo = {}
  /\ skipped = {}
  /\ md5sum = ""
  /\ fileSize = 0
  /\ readPos = 0
  /\ buffered = 0
  /\ currentChunk = 0
  /\ netlog = <<>>
  /\ sentFor = {}
  /\ imageId = 0
  /\ uploadErr = NoError
  /\ finalized = [h \in Hashes |-> 0]
  /\ attempts = [h \in Hashes |-> 0]
  /\ payload \in Payloads
  /\ encodedChunk = <<>>
  /\ decodedChunk = [ok |-> TRUE, bytes |-> <<>>]

CodecNext ==
  \/ EncodeChunk
  \/ DecodeChunk

SpecCodec == CodecInit /\ [][CodecNext]_vars

\* One call of UploadImage, for any arguments and any configured chunk size.
UploadInit ==
  /\ ChunkSizeInKB \in ChunkSizes
  /\ runs = 1
  /\ pc = "upload"
  /\ md5sums = {}
  /\ existLog = <<>>
  /\ missingFiles = {}
  /\ existErr = NoError
  /\ todo = {}
  /\ skipped = {}
  /\ md5sum \in Hashes
  /\ fileSize = 0
  /\ readPos = 0
  /\ buffered = 0
  /\ currentChunk = 0
  /\ netlog = <<>>
  /\ sentFor = {}
  /\ imageId = 0
  /\ uploadErr = NoError
  /\ finalized = [h \in Hashes |-> 0]
  /\ attempts = [h \in Hashes |-> 0]
  /\ payload = <<>>
  /\ encodedChunk = <<>>
  /\ decodedChunk = [ok |-> TRUE, bytes |-> <<>>]

UploadNext ==
  \/ UploadImage
  \/ uploadImageChunksRead
  \/ uploadImageChunkReturn
  \/ uploadImageFinalReturn

\* The calls of the loop are blocking calls that return: a Read that does
\* not fail completes, and every chunk request gets an answer or an error.
SpecUploadFair ==
  /\ UploadInit
  /\ [][UploadNext]_vars
  /\ WF_vars(uploadImageChunksRead /\ uploadErr' = NoError)
  /\ WF_vars(uploadImageChunkReturn)

TypeOK ==
  /\ ChunkSizeInKB \in ChunkSizes
  /\ runs \in 1..MaxRuns
  /\ pc \in {"start", "existWait", "sync", "upload", "read", "chunkWait", "finalWait", "done"}
  /\ md5sums \subseteq Hashes
  /\ missingFiles \subseteq Hashes
  /\ todo \subseteq md5sums
  /\ skipped \subseteq md5sums
  /\ md5sum \in Hashes \cup {""}
  /\ fileSize \in FileSizes
  /\ readPos \in 0..fileSize
  /\ buffered \in 0..defaultBufSize
  /\ readPos + buffered <= fileSize
  /\ currentChunk \in 0..(MaxFileKB + 2)
  /\ imageId \in ImageIds
  /\ sentFor \subseteq Hashes
  /\ finalized \in [Hashes -> 0..MaxRuns]
  /\ attempts \in [Hashes -> 0..MaxRuns]

\* ------------------------------------------------------- reading the log
ChunkEntries == {i \in DOMAIN netlog : netlog[i].method = "pwg.images.addChunk"}
FinalEntries == {i \in DOMAIN netlog : netlog[i].method = "pwg.images.add"}
FailedEntries == {i \in DOMAIN netlog : netlog[i].answer \notin {"ok", "pending"}}
\* UploadImage has returned to the driver and its results are still in place
Returned == pc \in {"sync", "done"} /\ md5sum # ""
\* the chunk requests carry the file's bytes from the first to the last, in order
CoversFile ==
  /\ \A i \in ChunkEntries :
       netlog[i].off = (IF i = 1 THEN 0 ELSE netlog[i - 1].off + netlog[i - 1].len)
  /\ readPos = fileSize

\* C1: the finalize request (pwg.images.add) is sent only after every chunk
\* of the file was sent and answered with stat "ok"; once a chunk request
\* ended in an error (transport, decode or stat other than "ok") the
\* invocation holds no finalize request.
C1_FinalizeOnlyAfterAllChunksOk ==
  /\ \A f \in FinalEntries :
       /\ \A i \in 1..(f - 1) : i \in ChunkEntries /\ netlog[i].answer = "ok"
       /\ CoversFile
  /\ (\E i \in ChunkEntries : i \in FailedEntries) => FinalEntries = {}

C1_Witness ==
  /\ FinalEntries # {}
  /\ Cardinality(ChunkEntries) >= 2
  /\ fileSize > 0

\* C2: when all chunks are accepted, the invocation has sent exactly
\* ceil(S / C) chunk requests, S the file's size and C the chunk size in
\* bytes, at the positions 0..ceil(S/C)-1 in order.
C2_ChunkCountIsCeil ==
  FinalEntries # {} =>
    /\ Cardinality(ChunkEntries) = CeilDiv(fileSize, ChunkSizeInKB * KB)
    /\ \A i \in ChunkEntries : netlog[i].position = i - 1

\* C3: chunk requests are strictly sequential: at most one request is
\* outstanding, it is the last one sent, every request before a chunk
\* request was accepted with stat "ok", and the positions the server sees
\* increase strictly.
C3_ChunksStrictlySequential ==
  /\ \A i \in DOMAIN netlog : netlog[i].answer = "pending" => i = Len(netlog)
  /\ (pc = "chunkWait") = (netlog # <<>> /\ netlog[Len(netlog)].answer = "pending"
                            /\ Len(netlog) \in ChunkEntries)
  /\ \A i \in ChunkEntries : \A j \in 1..(i - 1) :
       /\ netlog[j].answer = "ok"
       /\ netlog[j].position < netlog[i].position

C3_Witness ==
  /\ pc = "chunkWait"
  /\ Len(netlog) >= 3
  /\ netlog[Len(netlog)].position = 2

\* the existence check of this run has returned without an error
OracleAnswered ==
  /\ Len(existLog) = 1
  /\ existLog[1].answer = "json"
  /\ existErr = NoError
\* the hashes of the query that the existence check did not return as missing
ClassifiedPresent == md5sums \ missingFiles

\* C4: a chunk or finalize request is sent for a hash only after the
\* existence check of the run was asked about that hash and has answered,
\* and never for a hash the check classified as present.
C4_OracleConsultedBeforeUpload ==
  /\ (sentFor # {} \/ pc \in {"upload", "read", "chunkWait", "finalWait"}) =>
       /\ OracleAnswered
       /\ sentFor \subseteq existLog[1].md5sum_list
       /\ md5sum \in existLog[1].md5sum_list
  /\ OracleAnswered => sentFor \cap ClassifiedPresent = {}
  /\ \A i \in DOMAIN netlog : netlog[i].original_sum \notin ClassifiedPresent

C4_Witness ==
  /\ OracleAnswered
  /\ todo = {}
  /\ ClassifiedPresent # {}
  /\ skipped = ClassifiedPresent
  /\ sentFor # {}

\* C5: the existence check classifies exactly the queried hashes: the
\* missing set it returns holds no hash outside the query, so that the
\* missing and the present hashes together are the query, each hash once.
C5_ClassifiesExactlyTheQuery ==
  OracleAnswered =>
    /\ missingFiles \subseteq md5sums
    /\ missingFiles \cup ClassifiedPresent = md5sums
    /\ missingFiles \cap ClassifiedPresent = {}

\* C6: a queried hash is returned as missing exactly when the server's
\* response gives it an empty value or does not contain it at all.
C6_MissingIffEmptyOrAbsent ==
  OracleAnswered =>
    \A h \in md5sums :
      h \in missingFiles <=>
        (h \notin DOMAIN existLog[1].result \/ existLog[1].result[h] = "")

\* C7: with a chunk size of zero or less UploadImage sends no request and
\* returns the configuration error and the identifier 0.
C7_NonPositiveChunkSizeNoNetwork ==
  ChunkSizeInKB <= 0 =>
    /\ netlog = <<>>
    /\ sentFor = {}
    /\ pc \notin {"read", "chunkWait", "finalWait"}
    /\ Returned => (uploadErr = ConfigError /\ imageId = 0)

C7_Witness ==
  /\ ChunkSizeInKB <= 0
  /\ Returned
  /\ uploadErr = ConfigError

\* C8: a chunk answered with a stat other than "ok" is the last request of
\* the invocation (no later position, no second request for the position,
\* no finalize), and the error UploadImage returns names the reported
\* status, the chunk's position and the file's content hash.
C8_ChunkRejectionAborts ==
  \A i \in ChunkEntries :
    netlog[i].answer \in Stats \ {"ok"} =>
      /\ i = Len(netlog)
      /\ \A j \in 1..(i - 1) : netlog[j].position # netlog[i].position
      /\ Returned
      /\ uploadErr.kind = "chunkState"
      /\ uploadErr.state = netlog[i].answer
      /\ uploadErr.position = netlog[i].position
      /\ uploadErr.sum = md5sum
      /\ uploadErr.sum = netlog[i].original_sum
      /\ imageId = 0

C8_Witness ==
  /\ Len(netlog) = 3
  /\ netlog[3].method = "pwg.images.addChunk"
  /\ netlog[3].position = 2
  /\ netlog[3].answer = "fail"
  /\ uploadErr = ChunkStateError("fail", 2, md5sum)

\* C9: when UploadImage returns no error, the image identifier is positive.
C9_SuccessIdPositive ==
  (Returned /\ uploadErr = NoError) => imageId > 0

\* C10: an existence check for no hashes sends no query and returns an
\* empty missing set and no error.
C10_EmptyQueryIsNoOp ==
  md5sums = {} =>
    /\ existLog = <<>>
    /\ missingFiles = {}
    /\ existErr = NoError

\* ---------------------------------------------------- the per-file states
\* The state of the current UploadImage invocation (spec section 4.4).
UploadState ==
  CASE pc = "upload" -> "NotStarted"
    [] pc \in {"read", "chunkWait"} -> "Transmitting"
    [] pc = "finalWait" -> "Finalizing"
    [] Returned /\ uploadErr = NoError -> "Done"
    [] Returned /\ uploadErr # NoError -> "Failed"
    [] OTHER -> "Idle"
\* the steps the state machine allows within one invocation
AllowedStep(from, to) ==
  \/ from = to
  \/ from = "NotStarted" /\ to \in {"Transmitting", "Failed"}
  \/ from = "Transmitting" /\ to \in {"Finalizing", "Failed"}
  \/ from = "Finalizing" /\ to \in {"Done", "Failed"}
\* the step starts a new invocation, or a new run
NewInvocation == pc' \in {"upload", "start"}

\* C11: within one invocation the states are entered in the order
\* NotStarted, Transmitting, Finalizing, Done; Done is entered only from
\* Finalizing on a finalize request answered "ok"; a request that ended in
\* an error puts the invocation in Failed; in Done and Failed no request is
\* sent and the returned error and identifier do not change.
C11_UploadStateMachine ==
  [][ /\ ~NewInvocation => AllowedStep(UploadState, UploadState')
      /\ (UploadState' = "Done" /\ UploadState # "Done") =>
            /\ UploadState = "Finalizing"
            /\ netlog'[Len(netlog')].method = "pwg.images.add"
            /\ netlog'[Len(netlog')].answer = "ok"
      /\ (\E i \in DOMAIN netlog' : netlog'[i].answer \notin {"ok", "pending"}) =>
            UploadState' = "Failed"
      /\ (UploadState \in {"Done", "Failed"} /\ ~NewInvocation) =>
            /\ netlog' = netlog
            /\ uploadErr' = uploadErr
            /\ imageId' = imageId
    ]_vars

C11_Witness ==
  /\ UploadState = "Failed"
  /\ Len(netlog) = 3
  /\ netlog[3].answer = "transport"
  /\ todo # {}

\* C12: with a server that answers the existence check from its state, no
\* sequence of runs, whatever failed in them, leaves the server with more
\* than one image for a content hash.
C12_AtMostOneFinalizedPerHash ==
  \A h \in Hashes : finalized[h] <= 1

\* a second attempt, after a failed first one, has created the only image
C12_Witness ==
  /\ Returned
  /\ uploadErr = NoError
  /\ attempts[md5sum] = 2
  /\ finalized[md5sum] = 1
  /\ \E i \in ChunkEntries : netlog[i].position = 0

\* C13: a finalize request answered with a stat other than "ok" makes
\* UploadImage return the identifier 0 and the error of uploadImageFinal,
\* which names the reported state, the operation (adding an image) and the
\* file's name.
C13_FinalizeRejectionError ==
  \A f \in FinalEntries :
    netlog[f].answer \in Stats \ {"ok"} =>
      /\ Returned
      /\ imageId = 0
      /\ uploadErr.kind = "finalState"
      /\ uploadErr.state = netlog[f].answer
      /\ uploadErr.name = FileName(md5sum)
      /\ uploadErr = FinalStateError(netlog[f].answer, FileName(netlog[f].original_sum))

C13_Witness ==
  /\ Len(netlog) = 2
  /\ netlog[2].method = "pwg.images.add"
  /\ netlog[2].answer = "error"
  /\ uploadErr = FinalStateError("error", FileName(md5sum))

\* C14: for every chunk payload, the empty and the one-byte payload
\* included, decoding the base64 text of the payload gives the payload back.
C14_Base64RoundTrip ==
  /\ pc = "decode" =>
       /\ Len(encodedChunk) = 4 * CeilDiv(Len(payload), 3)
       /\ \A i \in DOMAIN encodedChunk : encodedChunk[i] = Pad \/ IsAlphabetChar(encodedChunk[i])
  /\ pc = "decoded" =>
       /\ decodedChunk.ok
       /\ decodedChunk.bytes = payload

C14_Witness ==
  /\ pc = "decoded"
  /\ payload = <<255>>
  /\ encodedChunk = <<"/", "w", "=", "=">>
  /\ decodedChunk.bytes = <<255>>

\* the chunk requests of the invocation, first to last
LastChunk == IF ChunkEntries = {} THEN 0 ELSE CHOOSE i \in ChunkEntries : \A j \in ChunkEntries : j <= i
\* the invocation has passed os.Stat and os.Open
InLoopOrAfter ==
  \/ pc \in {"read", "chunkWait", "finalWait"}
  \/ Returned /\ uploadErr \notin {ConfigError, StatError, OpenError}

\* C15: when all chunks are accepted, every chunk but the last carried
\* exactly C bytes (C the chunk size in bytes), the last one between 1 and
\* C bytes, and the chunks in the order of their positions are the file.
C15_ChunkSizes ==
  FinalEntries # {} =>
    /\ \A i \in ChunkEntries :
         IF i = LastChunk
         THEN netlog[i].len >= 1 /\ netlog[i].len <= ChunkSizeInKB * KB
         ELSE netlog[i].len = ChunkSizeInKB * KB
    /\ CoversFile

\* C17: the chunk count computed before the read loop is ceil(S / C), S the
\* file's size and C the chunk size in bytes, and so the number of chunk
\* requests of an invocation whose chunks are all accepted.
C17_NumberOfChunksIsCeil ==
  /\ InLoopOrAfter =>
       numberOfChunks(fileSizeInKB(fileSize), ChunkSizeInKB)
         = CeilDiv(fileSize, ChunkSizeInKB * KB)
  /\ FinalEntries # {} =>
       numberOfChunks(fileSizeInKB(fileSize), ChunkSizeInKB) = Cardinality(ChunkEntries)

\* C18: every chunk request and the finalize request of an invocation
\* carry the md5sum argument of the invocation as original_sum.
C18_SameHashOnEveryRequest ==
  \A i \in DOMAIN netlog : netlog[i].original_sum = md5sum

C18_Witness ==
  /\ FinalEntries # {}
  /\ Cardinality(ChunkEntries) >= 2
  /\ md5sum = "c3d4"

\* C19: for a file of zero bytes and a valid chunk size UploadImage sends no
\* chunk request, and unless opening or reading the file fails it sends
\* exactly one finalize request, as the only request of the invocation.
C19_EmptyFileFinalizedWithoutChunks ==
  (fileSize = 0 /\ ChunkSizeInKB > 0 /\ md5sum # "") =>
    /\ ChunkEntries = {}
    /\ pc # "chunkWait"
    /\ (pc = "finalWait" \/ (Returned /\ InLoopOrAfter /\ uploadErr # ReadError)) =>
         (Len(netlog) = 1 /\ FinalEntries = {1})

C19_Witness ==
  /\ fileSize = 0
  /\ Returned
  /\ uploadErr = NoError
  /\ Len(netlog) = 1
  /\ netlog[1].method = "pwg.images.add"
  /\ netlog[1].answer = "ok"
  /\ imageId > 0

\* C16: the read loop of uploadImageChunks terminates for every file and
\* all answers of the server; it ends with success only on a read of zero
\* bytes at the end of the file, every other read sends the bytes it got as
\* a chunk, and a failed read returns the read error without a request.
C16_ReadLoopTerminates ==
  /\ [][ (pc = "read" /\ pc' # "read") =>
           \/ pc' = "finalWait" /\ readPos = fileSize /\ buffered = 0 /\ readPos' = readPos
           \/ /\ pc' = "chunkWait"
              /\ readPos < fileSize
              /\ readPos' > readPos
              /\ netlog'[Len(netlog')].len = readPos' - readPos
           \/ pc' = "sync" /\ uploadErr' = ReadError /\ imageId' = 0 /\ netlog' = netlog
       ]_vars
  /\ (pc \in {"read", "chunkWait"}) ~> (pc \notin {"read", "chunkWait"})

C16_Witness ==
  /\ pc = "finalWait"
  /\ Cardinality(ChunkEntries) = 3
  /\ readPos = fileSize
  /\ currentChunk = 3

====
